---- MODULE Spec2Model ----
(***************************************************************************)
(* A model of scim_users_groups.py: the command-line SCIM client.  One    *)
(* behaviour is one run: of the whole tool (entry = "main"), or of one of *)
(* its two library functions called directly (get_all_resources,         *)
(* delete_resources).  Every HTTP call, pause and prompt the run makes is *)
(* appended to `events`; the lines written to standard output to         *)
(* `stdout`.  The progress lines written to standard error are not       *)
(* modelled.  The flags --url, --token, --format, --delay, --external-id *)
(* and --members take no part in the control flow and are left out.      *)
(***************************************************************************)
EXTENDS Integers, Sequences, FiniteSets, TLC

VARIABLES
    entry,           \* where the run started: "main" or a library function
    args,            \* the parsed command line (main, line 263)
    backend,         \* the remote SCIM endpoint the run talks to
    pc,              \* position of the run in the program
    exit_code,       \* the process's exit code, once pc = "exited"
    events,          \* HTTP requests, pauses and prompts, in order
    stdout,          \* lines printed on standard output, in order
    confirm,         \* the answer read at the prompt (line 332)
    first_page,      \* get_all_resources: first_page
    total_results,   \* get_all_resources: total_results
    items_per_page,  \* get_all_resources: items_per_page
    all_resources,   \* get_all_resources: all_resources
    current_index,   \* get_all_resources: current_index
    resources,       \* the collection get_all_resources returned
    resource_ids,    \* delete_resources: resource_ids
    i,               \* delete_resources: i, the identifiers processed
    results          \* delete_resources: results, an insertion-ordered dict

vars == <<entry, args, backend, pc, exit_code, events, stdout, confirm,
          first_page, total_results, items_per_page, all_resources,
          current_index, resources, resource_ids, i, results>>

pagerVars == <<first_page, total_results, items_per_page, all_resources,
               current_index>>

deleterVars == <<resource_ids, i, results>>

(***************************************************************************)
(* Bounds of the model.                                                    *)
(***************************************************************************)
MaxTotal == 3        \* resources held by the backend: 0..MaxTotal
MaxIpp == 2          \* largest itemsPerPage a backend reports
MaxNegIpp == 1       \* a backend may report itemsPerPage down to -MaxNegIpp
MaxIds == 3          \* longest identifier sequence given to delete_resources
\* fetches followed in a run that never ends; a run that ends makes at most
\* MaxTotal of them
MaxFetches == MaxTotal + 3

(***************************************************************************)
(* Values.                                                                 *)
(***************************************************************************)
None == "<None>"                 \* Python's None, an option not given
Null == [null |-> TRUE]          \* no collection returned (yet)

Truthy(v) == v # None /\ v # ""

\* all([...]) of lines 267 and 282
AllTruthy(vs) == \A j \in 1..Len(vs) : Truthy(vs[j])

Min(a, b) == IF a < b THEN a ELSE b

Max(a, b) == IF a < b THEN b ELSE a

\* dict.get(key, default)
DictGet(d, key, default) == IF key \in DOMAIN d THEN d[key] ELSE default

\* the default of get_page's count parameter
DefaultCount == 1000

\* the default of first_page.get('itemsPerPage', ...)
DefaultItemsPerPage == 1000

\* the default of first_page.get('totalResults', ...)
DefaultTotalResults == 0

YesAnswer == <<"y", "e", "s">>

\* the answers typed at the prompt, as sequences of characters
Answers == { YesAnswer, <<"Y", "E", "S">>, <<"Y", "e", "s">>, <<"n", "o">>,
             <<"y">>, <<>>, <<"y", "e", "s", " ">> }

LowerChar(c) ==
    CASE c = "Y" -> "y"
      [] c = "E" -> "e"
      [] c = "S" -> "s"
      [] c = "N" -> "n"
      [] c = "O" -> "o"
      [] OTHER -> c

\* str.lower()
Lower(s) == [j \in 1..Len(s) |-> LowerChar(s[j])]

(***************************************************************************)
(* The backend: the SCIM endpoint behind GET {type}?startIndex=N&count=M.  *)
(* It holds `total` resources r1..r<total>, reports totalResults = total   *)
(* and itemsPerPage = ipp, and returns ipp resources per page until they   *)
(* are exhausted.  A backend with reports = FALSE leaves both numbers out  *)
(* of its answer and returns everything asked for.                         *)
(***************************************************************************)
Backends ==
    { [total |-> t, ipp |-> p, reports |-> TRUE] :
          t \in 0..MaxTotal, p \in (0 - MaxNegIpp)..MaxIpp }
    \cup { [total |-> t, ipp |-> DefaultCount, reports |-> FALSE] :
          t \in 0..MaxTotal }

Store(b) == [n \in 1..b.total |-> [id |-> "r" \o ToString(n)]]

\* the body of a 2xx answer to GET ...?startIndex=start_index&count=count
BackendPage(b, start_index, count) ==
    LET size == Min(b.ipp, count)
        res  == IF size <= 0 THEN << >>
                ELSE SubSeq(Store(b), Max(start_index, 1),
                            Min(start_index + size - 1, b.total))
    IN  IF b.reports
        THEN [schemas |-> <<"ListResponse">>, totalResults |-> b.total,
              itemsPerPage |-> b.ipp, startIndex |-> start_index,
              Resources |-> res]
        ELSE [schemas |-> <<"ListResponse">>, Resources |-> res]

(***************************************************************************)
(* get_page (lines 9-31): one GET.  ok = FALSE is a transport error or a   *)
(* non-2xx answer: RequestException, caught at line 29, sys.exit(1).       *)
(***************************************************************************)
GetPage_Swallow(b, start_index, ok) ==
    IF ok THEN [exit |-> FALSE, page |-> BackendPage(b, start_index, DefaultCount)]
    ELSE [exit |-> FALSE, page |-> [Resources |-> << >>]]

GetPage(b, start_index, ok) ==
    IF ok THEN [exit |-> FALSE, page |-> BackendPage(b, start_index, DefaultCount)]
    ELSE [exit |-> TRUE, page |-> Null]

GetEvent(start_index, ok) ==
    [op |-> "GET", startIndex |-> start_index, count |-> DefaultCount, ok |-> ok]

IsGet(e) == e.op = "GET"

IsDelete(e) == e.op = "DELETE"

IsSleep(e) == e.op = "SLEEP"

IsHttp(e) == e.op \in {"GET", "DELETE", "POST", "PATCH"}

\* sys.exit(code), or main returning (code 0)
Exit(code) == pc' = "exited" /\ exit_code' = code

(***************************************************************************)
(* get_all_resources (lines 33-56).                                        *)
(***************************************************************************)
\* line 43: current_index = items_per_page + 1
FirstNextIndex(ipp) == ipp + 1

\* line 44: while current_index <= total_results
LoopContinues_Strict(index, total) == index < total

LoopContinues(index, total) == index <= total

\* line 48: current_index += items_per_page
Advance_PlusOne(index, ipp) == index + ipp + 1

Advance(index, ipp) == index + ipp

\* line 47: all_resources.extend(page.get('Resources', []))
Extend(all, page) == all \o DictGet(page, "Resources", << >>)

\* lines 35-43: the first page
GetAll_FirstPage ==
    /\ pc = "get_all_resources"
    /\ \E b \in Backends, ok \in BOOLEAN :
         LET r == GetPage(b, 1, ok) IN
         /\ backend' = b
         /\ events' = Append(events, GetEvent(1, ok))
         /\ IF r.exit
            THEN Exit(1) /\ UNCHANGED pagerVars
            ELSE /\ first_page' = r.page
                 /\ total_results' = DictGet(r.page, "totalResults", DefaultTotalResults)
                 /\ items_per_page' = DictGet(r.page, "itemsPerPage", DefaultItemsPerPage)
                 /\ all_resources' = DictGet(r.page, "Resources", << >>)
                 /\ current_index' =
                        FirstNextIndex(DictGet(r.page, "itemsPerPage", DefaultItemsPerPage))
                 /\ pc' = "paging"
                 /\ UNCHANGED exit_code
    /\ UNCHANGED <<entry, args, stdout, confirm, resources, deleterVars>>

\* lines 44-48: one turn of the while loop
GetAll_NextPage ==
    /\ pc = "paging"
    /\ LoopContinues(current_index, total_results)
    /\ Len(SelectSeq(events, IsGet)) < MaxFetches
    /\ \E ok \in BOOLEAN :
         LET r == GetPage(backend, current_index, ok) IN
         /\ events' = Append(events, GetEvent(current_index, ok))
         /\ IF r.exit
            THEN Exit(1) /\ UNCHANGED pagerVars
            ELSE /\ all_resources' = Extend(all_resources, r.page)
                 \* all_resources is first_page['Resources'] itself when present
                 /\ first_page' =
                        IF "Resources" \in DOMAIN first_page
                        THEN [first_page EXCEPT !.Resources = Extend(all_resources, r.page)]
                        ELSE first_page
                 /\ current_index' = Advance(current_index, items_per_page)
                 /\ UNCHANGED <<pc, exit_code, total_results, items_per_page>>
    /\ UNCHANGED <<entry, args, backend, stdout, confirm, resources, deleterVars>>

\* lines 50-56: the loop condition fails, the aggregated collection is returned
GetAll_Return ==
    /\ pc = "paging"
    /\ ~LoopContinues(current_index, total_results)
    /\ resources' = [schemas |-> DictGet(first_page, "schemas", << >>),
                     totalResults |-> total_results,
                     Resources |-> all_resources,
                     itemsPerPage |-> Len(all_resources),
                     startIndex |-> 1]
    /\ pc' = IF entry = "main" THEN "listed" ELSE "returned"
    /\ UNCHANGED <<entry, args, backend, exit_code, events, stdout, confirm,
                   pagerVars, deleterVars>>

(***************************************************************************)
(* delete_resource (lines 58-74): one DELETE; True on a 2xx answer, False  *)
(* on a RequestException, which is caught and not propagated.              *)
(***************************************************************************)
DeleteResource_AlwaysTrue(ok) == TRUE

DeleteResource(ok) == ok

DeleteEvent(resource_id, ok) == [op |-> "DELETE", id |-> resource_id, ok |-> ok]

SleepEvent == [op |-> "SLEEP"]

(***************************************************************************)
(* delete_resources (lines 76-88).  The dict `results` is a sequence of    *)
(* [key, value] entries in insertion order: assigning to a key already     *)
(* present replaces its value where it stands.                             *)
(***************************************************************************)
DictKeys(d) == [j \in 1..Len(d) |-> d[j].key]

DictHas(d, k) == \E j \in 1..Len(d) : d[j].key = k

DictValue(d, k) == d[CHOOSE j \in 1..Len(d) : d[j].key = k].value

\* line 84: results[resource_id] = success
DictSet_Append(d, k, v) == Append(d, [key |-> k, value |-> v])

DictSet(d, k, v) ==
    IF DictHas(d, k)
    THEN [j \in 1..Len(d) |-> IF d[j].key = k THEN [key |-> k, value |-> v] ELSE d[j]]
    ELSE Append(d, [key |-> k, value |-> v])

\* line 85: if i < total
ShouldSleep_Always(index, total) == TRUE

ShouldSleep(index, total) == index < total

\* lines 81-86: one turn of the for loop
DeleteResources_Iteration ==
    /\ pc = "delete_resources"
    /\ i < Len(resource_ids)
    /\ \E ok \in BOOLEAN :
         LET resource_id == resource_ids[i + 1]
             total       == Len(resource_ids)
             success     == DeleteResource(ok)
         IN  /\ events' = Append(events, DeleteEvent(resource_id, ok))
                            \o (IF ShouldSleep(i + 1, total) THEN <<SleepEvent>> ELSE << >>)
             /\ results' = DictSet(results, resource_id, success)
             /\ i' = i + 1
    /\ UNCHANGED <<entry, args, backend, pc, exit_code, stdout, confirm,
                   pagerVars, resources, resource_ids>>

\* line 88: the identifiers are exhausted, results is returned
DeleteResources_Return ==
    /\ pc = "delete_resources"
    /\ i = Len(resource_ids)
    /\ pc' = IF entry = "main" THEN "deleted" ELSE "returned"
    /\ UNCHANGED <<entry, args, backend, exit_code, events, stdout, confirm,
                   pagerVars, resources, deleterVars>>

(***************************************************************************)
(* add_user_to_group (lines 174-211), create_user (90-135), create_group  *)
(* (137-172): one request each.                                            *)
(***************************************************************************)
\* add_user_to_group: True on a 2xx answer, False otherwise
AddUserToGroup(ok) == ok

\* line 276: sys.exit(0) whether the PATCH succeeded or not
AddToGroupExit_FailOnError(success) == IF success THEN 0 ELSE 1

AddToGroupExit(success) == 0

\* create_user / create_group: the body on a 2xx answer, sys.exit(1) otherwise
CreateExit(ok) == IF ok THEN 0 ELSE 1

Line(text) == [line |-> text]

(***************************************************************************)
(* main (lines 232-364).                                                   *)
(***************************************************************************)
\* line 267: all([args.user_id, args.group_id])
MembershipArgsComplete(a) == AllTruthy(<<a.user_id, a.group_id>>)

\* line 282: all([args.email, args.first_name, args.last_name])
UserArgsComplete_Unchecked(a) == TRUE

UserArgsComplete(a) == AllTruthy(<<a.email, a.first_name, a.last_name>>)

\* line 333: confirm.lower() != 'yes' cancels
ConfirmProceeds_Always(answer) == TRUE

ConfirmProceeds(answer) == Lower(answer) = YesAnswer

\* lines 266-276
Main_AddToGroup ==
    /\ pc = "main"
    /\ args.add_to_group
    /\ IF ~MembershipArgsComplete(args)
       THEN /\ stdout' = Append(stdout, Line("Error: --user-id and --group-id are required"))
            /\ Exit(1)
            /\ UNCHANGED events
       ELSE \E ok \in BOOLEAN :
              LET success == AddUserToGroup(ok) IN
              /\ events' = Append(events, [op |-> "PATCH", ok |-> ok])
              /\ stdout' = Append(stdout, Line(IF success THEN "Successfully added user"
                                                          ELSE "Failed to add user"))
              /\ Exit(AddToGroupExit(success))
    /\ UNCHANGED <<entry, args, backend, confirm, pagerVars, resources, deleterVars>>

\* lines 279-301
Main_CreateUser ==
    /\ pc = "main"
    /\ ~args.add_to_group
    /\ args.action = "create"
    /\ Truthy(args.username)
    /\ IF ~UserArgsComplete(args)
       THEN /\ stdout' = Append(stdout, Line("Error: email, first-name, and last-name are required"))
            /\ Exit(1)
            /\ UNCHANGED events
       ELSE \E ok \in BOOLEAN :
              /\ events' = Append(events, [op |-> "POST", kind |-> "Users", ok |-> ok])
              /\ stdout' = IF ok THEN Append(stdout, Line("User created successfully:"))
                           ELSE stdout
              /\ Exit(CreateExit(ok))
    /\ UNCHANGED <<entry, args, backend, confirm, pagerVars, resources, deleterVars>>

\* lines 304-320
Main_CreateGroup ==
    /\ pc = "main"
    /\ ~args.add_to_group
    /\ args.action = "create"
    /\ ~Truthy(args.username)
    /\ Truthy(args.display_name)
    /\ \E ok \in BOOLEAN :
         /\ events' = Append(events, [op |-> "POST", kind |-> "Groups", ok |-> ok])
         /\ stdout' = IF ok THEN Append(stdout, Line("Group created successfully:"))
                      ELSE stdout
         /\ Exit(CreateExit(ok))
    /\ UNCHANGED <<entry, args, backend, confirm, pagerVars, resources, deleterVars>>

\* lines 321-323
Main_CreateNothing ==
    /\ pc = "main"
    /\ ~args.add_to_group
    /\ args.action = "create"
    /\ ~Truthy(args.username)
    /\ ~Truthy(args.display_name)
    /\ stdout' = Append(stdout, Line("Error: For create action, either provide --username or --display-name"))
    /\ Exit(1)
    /\ UNCHANGED <<entry, args, backend, events, confirm, pagerVars, resources,
                   deleterVars>>

\* lines 326-329
Main_NoType ==
    /\ pc = "main"
    /\ ~args.add_to_group
    /\ args.action # "create"
    /\ ~Truthy(args.type)
    /\ stdout' = Append(stdout, Line("Error: --type is required for list and delete operations"))
    /\ Exit(1)
    /\ UNCHANGED <<entry, args, backend, events, confirm, pagerVars, resources,
                   deleterVars>>

\* lines 331-338: delete without an id asks first, then lists
Main_Confirm ==
    /\ pc = "main"
    /\ ~args.add_to_group
    /\ args.action # "create"
    /\ Truthy(args.type)
    /\ args.action = "delete" /\ ~Truthy(args.id)
    /\ \E answer \in Answers :
         /\ confirm' = answer
         /\ events' = Append(events, [op |-> "PROMPT"])
         /\ IF ~ConfirmProceeds(answer)
            THEN /\ stdout' = Append(stdout, Line("Operation cancelled."))
                 /\ Exit(0)
            ELSE /\ pc' = "get_all_resources"
                 /\ UNCHANGED <<stdout, exit_code>>
    /\ UNCHANGED <<entry, args, backend, pagerVars, resources, deleterVars>>

\* lines 337-338: list (with or without an id)
Main_List ==
    /\ pc = "main"
    /\ ~args.add_to_group
    /\ args.action # "create"
    /\ Truthy(args.type)
    /\ ~(args.action = "delete" /\ ~Truthy(args.id))
    /\ args.action = "list" \/ ~Truthy(args.id)
    /\ pc' = "get_all_resources"
    /\ UNCHANGED <<entry, args, backend, exit_code, events, stdout, confirm,
                   pagerVars, resources, deleterVars>>

\* lines 340-342: delete everything listed
Main_DeleteAll ==
    /\ pc = "listed"
    /\ args.action = "delete"
    /\ resource_ids' = [j \in 1..Len(resources.Resources) |-> resources.Resources[j].id]
    /\ results' = << >>
    /\ i' = 0
    /\ pc' = "delete_resources"
    /\ UNCHANGED <<entry, args, backend, exit_code, events, stdout, confirm,
                   pagerVars, resources>>

\* lines 344-350: the summary of a delete-all, then main returns
Main_Summary ==
    /\ pc = "deleted"
    /\ LET successful == Len(SelectSeq(results, LAMBDA e : e.value)) IN
       stdout' = Append(stdout, [line |-> "Deletion Summary:",
                                 successful |-> successful,
                                 failed |-> Len(results) - successful])
    /\ Exit(0)
    /\ UNCHANGED <<entry, args, backend, events, confirm, pagerVars, resources,
                   deleterVars>>

\* lines 351-361: the listing is printed, then main returns
Main_PrintListing ==
    /\ pc = "listed"
    /\ args.action # "delete"
    /\ stdout' = Append(stdout, [line |-> "Total found:",
                                 count |-> Len(resources.Resources),
                                 Resources |-> resources.Resources])
    /\ Exit(0)
    /\ UNCHANGED <<entry, args, backend, events, confirm, pagerVars, resources,
                   deleterVars>>

\* lines 362-364: delete one resource by id, then main returns
Main_DeleteSingle ==
    /\ pc = "main"
    /\ ~args.add_to_group
    /\ args.action # "create"
    /\ Truthy(args.type)
    /\ ~(args.action = "list" \/ ~Truthy(args.id))
    /\ \E ok \in BOOLEAN :
         LET success == DeleteResource(ok) IN
         /\ events' = Append(events, DeleteEvent(args.id, ok))
         /\ stdout' = Append(stdout, Line(IF success THEN "deletion: successful"
                                                     ELSE "deletion: failed"))
         /\ Exit(0)
    /\ UNCHANGED <<entry, args, backend, confirm, pagerVars, resources, deleterVars>>

(***************************************************************************)
(* The runs.                                                               *)
(***************************************************************************)
OptionValues == {None, "x"}

\* what parse_args can give (lines 233-263); of --type's two choices, which
\* differ only in the URL and the formatter, one is kept
ArgSpace ==
    [add_to_group : BOOLEAN, user_id : OptionValues, group_id : OptionValues,
     action : {"list", "delete", "create"},
     username : OptionValues, email : OptionValues,
     first_name : OptionValues, last_name : OptionValues,
     display_name : OptionValues,
     type : {None, "Users"},
     id : {None, "", "x"}]

\* the defaults of the parser: nothing given
DefaultArgs ==
    [add_to_group |-> FALSE, user_id |-> None, group_id |-> None,
     action |-> "list", username |-> None, email |-> None,
     first_name |-> None, last_name |-> None, display_name |-> None,
     type |-> None, id |-> None]

IdPool == {"r1", "r2", "r3"}

\* the identifier sequences given to delete_resources called directly
IdSeqs == UNION { [1..n -> IdPool] : n \in 0..MaxIds }

Init ==
    /\ backend = Null
    /\ exit_code = 0
    /\ events = << >>
    /\ stdout = << >>
    /\ confirm = << >>
    /\ first_page = Null
    /\ total_results = 0
    /\ items_per_page = 0
    /\ all_resources = << >>
    /\ current_index = 0
    /\ resources = Null
    /\ i = 0
    /\ results = << >>
    /\ \/ /\ entry = "main"
          /\ pc = "main"
          /\ args \in ArgSpace
          /\ resource_ids = << >>
       \/ /\ entry = "get_all_resources"
          /\ pc = "get_all_resources"
          /\ args = DefaultArgs
          /\ resource_ids = << >>
       \/ /\ entry = "delete_resources"
          /\ pc = "delete_resources"
          /\ args = DefaultArgs
          /\ resource_ids \in IdSeqs

Next ==
    \/ Main_AddToGroup
    \/ Main_CreateUser
    \/ Main_CreateGroup
    \/ Main_CreateNothing
    \/ Main_NoType
    \/ Main_Confirm
    \/ Main_List
    \/ Main_DeleteSingle
    \/ GetAll_FirstPage
    \/ GetAll_NextPage
    \/ GetAll_Return
    \/ Main_DeleteAll
    \/ Main_PrintListing
    \/ DeleteResources_Iteration
    \/ DeleteResources_Return
    \/ Main_Summary

Spec == Init /\ [][Next]_vars

(***************************************************************************)
(* What the properties read off a run.                                     *)
(***************************************************************************)
Fetches == SelectSeq(events, IsGet)

Deletes == SelectSeq(events, IsDelete)

Sleeps == SelectSeq(events, IsSleep)

HttpCalls == SelectSeq(events, IsHttp)

StartIndexes == [k \in 1..Len(Fetches) |-> Fetches[k].startIndex]

CeilDiv(a, b) == (a + b - 1) \div b

Range(s) == { s[j] : j \in 1..Len(s) }

\* s without the later occurrences of its elements
RECURSIVE FirstOccurrences(_)
FirstOccurrences(s) ==
    IF s = << >> THEN << >>
    ELSE LET front == FirstOccurrences(SubSeq(s, 1, Len(s) - 1))
             last  == s[Len(s)]
         IN  IF last \in Range(front) THEN front ELSE Append(front, last)

\* the resources of the pages the fetches f got from backend b, in fetch order
RECURSIVE PagesOf(_, _)
PagesOf(b, f) ==
    IF f = << >> THEN << >>
    ELSE LET e == f[Len(f)] IN
         PagesOf(b, SubSeq(f, 1, Len(f) - 1))
             \o (IF e.ok THEN BackendPage(b, e.startIndex, e.count).Resources ELSE << >>)

\* get_all_resources has returned its collection
Listed == resources # Null

\* the backend of claim C1: it reports totalResults and itemsPerPage = P > 0
RegularBackend == backend # Null /\ backend.reports /\ backend.ipp > 0

\* the run deletes in bulk (delete_resources), not one resource by --id
BulkRun == entry = "delete_resources" \/ (entry = "main" /\ Listed)

\* delete_resources has returned
BulkDone == BulkRun /\ i = Len(resource_ids)
            /\ pc \in {"deleted", "returned", "exited"}
            /\ (entry = "main" => args.action = "delete")

(***************************************************************************)
(* C1 as stated: against a backend reporting totalResults = R and          *)
(* itemsPerPage = P > 0, the collection returned holds exactly R resources *)
(* and exactly ceil(R / P) pages were fetched, R = 0 included.             *)
(***************************************************************************)
C1_FetchCountIsCeil ==
    (Listed /\ RegularBackend) =>
        /\ Len(resources.Resources) = backend.total
        /\ Len(Fetches) = CeilDiv(backend.total, backend.ipp)

(***************************************************************************)
(* C1 amended: against such a backend the collection returned holds        *)
(* exactly R resources and exactly max(1, ceil(R / P)) pages were fetched: *)
(* the first page is always fetched, so R = 0 costs one fetch, not zero.   *)
(***************************************************************************)
C1_Aggregation ==
    (Listed /\ RegularBackend) =>
        /\ Len(resources.Resources) = backend.total
        /\ resources.itemsPerPage = backend.total
        /\ Len(Fetches) = Max(1, CeilDiv(backend.total, backend.ipp))

C1_Witness ==
    /\ Listed /\ RegularBackend
    /\ backend.total = 3 /\ backend.ipp = 2
    /\ Len(Fetches) = 2
    /\ Len(resources.Resources) = 3

(***************************************************************************)
(* C2 as stated: delete_resources returns a mapping with exactly N         *)
(* entries for N input identifiers, in input order, also when an           *)
(* identifier occurs more than once.                                       *)
(***************************************************************************)
C2_OneEntryPerInput ==
    BulkDone => /\ Len(results) = Len(resource_ids)
                /\ DictKeys(results) = resource_ids

(***************************************************************************)
(* C2 amended: the mapping holds one entry per distinct identifier         *)
(* processed so far, in the order of the identifiers' first occurrence;    *)
(* for pairwise distinct identifiers that is N entries in input order.     *)
(***************************************************************************)
C2_OneEntryPerDistinctId ==
    /\ DictKeys(results) = FirstOccurrences(SubSeq(resource_ids, 1, i))
    /\ BulkDone =>
         /\ DictKeys(results) = FirstOccurrences(resource_ids)
         /\ Len(results) = Cardinality(Range(resource_ids))
         /\ (Cardinality(Range(resource_ids)) = Len(resource_ids)
                => DictKeys(results) = resource_ids)

C2_Witness ==
    /\ BulkDone
    /\ resource_ids = <<"r1", "r2", "r1">>
    /\ DictKeys(results) = <<"r1", "r2">>

(***************************************************************************)
(* C3 as stated: a failed DELETE never stops the run; every identifier of  *)
(* the input is attempted exactly once, in input order, and each           *)
(* identifier's recorded flag is true exactly when its own DELETE          *)
(* succeeded.                                                              *)
(***************************************************************************)
C3_FlagIsOwnOutcome ==
    BulkRun =>
        /\ Len(Deletes) = i
        /\ \A j \in 1..i : Deletes[j].id = resource_ids[j]
        /\ \A id \in Range(SubSeq(resource_ids, 1, i)) :
               Cardinality({ j \in 1..i : Deletes[j].id = id }) = 1
        /\ \A j \in 1..i : /\ DictHas(results, resource_ids[j])
                           /\ DictValue(results, resource_ids[j]) = Deletes[j].ok

(***************************************************************************)
(* C3 amended: a failed DELETE never stops the run; every element of the   *)
(* input is attempted exactly once, in input order, whatever the earlier   *)
(* outcomes, and each identifier's recorded flag is the outcome of the     *)
(* last DELETE issued for it (its only DELETE when it occurs once).        *)
(***************************************************************************)
C3_FailureDoesNotStop ==
    BulkRun =>
        /\ Len(Deletes) = i
        /\ \A j \in 1..i : Deletes[j].id = resource_ids[j]
        /\ \A j \in 1..i :
               (\A k \in (j + 1)..i : resource_ids[k] # resource_ids[j]) =>
                   /\ DictHas(results, resource_ids[j])
                   /\ DictValue(results, resource_ids[j]) = Deletes[j].ok
        /\ (entry = "delete_resources" => pc # "exited")
        /\ (pc \in {"deleted", "returned"} => i = Len(resource_ids))

C3_Witness ==
    /\ entry = "delete_resources" /\ pc = "returned"
    /\ resource_ids = <<"r1", "r2", "r3">>
    /\ results = << [key |-> "r1", value |-> TRUE],
                    [key |-> "r2", value |-> FALSE],
                    [key |-> "r3", value |-> TRUE] >>

(***************************************************************************)
(* C4: with --action delete and no id, no DELETE and no listing GET is     *)
(* issued before the prompt has been answered 'yes' (in any letter case);  *)
(* any other answer ends the process with no network call at all.          *)
(***************************************************************************)
PromptAnswered == \E k \in 1..Len(events) : events[k].op = "PROMPT"

C4_PromptGuardsDeleteAll ==
    (entry = "main" /\ args.action = "delete" /\ ~Truthy(args.id)) =>
        /\ \A k \in 1..Len(events) :
               events[k].op \in {"GET", "DELETE"} =>
                   /\ \E j \in 1..(k - 1) : events[j].op = "PROMPT"
                   /\ Lower(confirm) = <<"y", "e", "s">>
        /\ (PromptAnswered /\ Lower(confirm) # <<"y", "e", "s">>) =>
               /\ pc = "exited"
               /\ HttpCalls = << >>

C4_Witness ==
    /\ entry = "main" /\ args.action = "delete" /\ ~Truthy(args.id)
    /\ confirm = <<"Y", "E", "S">>
    /\ Len(Deletes) = 2
    /\ events[1].op = "PROMPT"

(***************************************************************************)
(* C5 as stated: every usage error exits 1 with no HTTP request: create    *)
(* with --username but without email, first-name or last-name; create      *)
(* with neither --username nor --display-name; --add-to-group without      *)
(* both ids; list or delete without --type.                                *)
(***************************************************************************)
UsageErrorAsStated(a) ==
    \/ a.action = "create" /\ Truthy(a.username)
         /\ ~(Truthy(a.email) /\ Truthy(a.first_name) /\ Truthy(a.last_name))
    \/ a.action = "create" /\ ~Truthy(a.username) /\ ~Truthy(a.display_name)
    \/ a.add_to_group /\ ~(Truthy(a.user_id) /\ Truthy(a.group_id))
    \/ a.action \in {"list", "delete"} /\ ~Truthy(a.type)

C5_UsageErrorsAsStated ==
    (entry = "main" /\ UsageErrorAsStated(args)) =>
        /\ HttpCalls = << >>
        /\ pc = "main" \/ (pc = "exited" /\ exit_code = 1)

(***************************************************************************)
(* C5 amended: --add-to-group is handled first, whatever --action says;    *)
(* the create and list/delete usage errors are those of a run without      *)
(* --add-to-group.  Every such usage error exits 1 with no HTTP request    *)
(* and no prompt.                                                          *)
(***************************************************************************)
UsageError(a) ==
    \/ a.add_to_group /\ ~(Truthy(a.user_id) /\ Truthy(a.group_id))
    \/ /\ ~a.add_to_group
       /\ \/ a.action = "create" /\ Truthy(a.username)
               /\ ~(Truthy(a.email) /\ Truthy(a.first_name) /\ Truthy(a.last_name))
          \/ a.action = "create" /\ ~Truthy(a.username) /\ ~Truthy(a.display_name)
          \/ a.action \in {"list", "delete"} /\ ~Truthy(a.type)

C5_UsageErrors ==
    (entry = "main" /\ UsageError(args)) =>
        /\ events = << >>
        /\ pc = "main" \/ (pc = "exited" /\ exit_code = 1 /\ Len(stdout) = 1)

C5_Witness ==
    /\ entry = "main" /\ pc = "exited" /\ exit_code = 1
    /\ ~args.add_to_group /\ args.action = "create"
    /\ Truthy(args.username) /\ ~Truthy(args.email)
    /\ Truthy(args.first_name) /\ Truthy(args.last_name)
    /\ events = << >>

(***************************************************************************)
(* C6: a failed page fetch, the first or a later one, ends the run at      *)
(* once with exit code 1: no collection is returned, nothing is printed,   *)
(* no further page is fetched and no DELETE follows.                       *)
(***************************************************************************)
C6_FetchFailureIsFatal ==
    \A k \in 1..Len(events) :
        (IsGet(events[k]) /\ ~events[k].ok) =>
            /\ k = Len(events)
            /\ pc = "exited" /\ exit_code = 1
            /\ resources = Null
            /\ stdout = << >>
            /\ Deletes = << >>

C6_Witness ==
    /\ entry = "main" /\ args.action = "delete"
    /\ Len(Fetches) = 2
    /\ Fetches[1].ok /\ ~Fetches[2].ok
    /\ all_resources # << >>
    /\ pc = "exited"

(***************************************************************************)
(* C7: the pager always terminates, also when the backend reports          *)
(* itemsPerPage = 0 or less with totalResults > 0: it never fetches the    *)
(* same startIndex again.  The loop of lines 44-48 moves startIndex by the *)
(* constant items_per_page and runs while startIndex <= totalResults, so   *)
(* once entered it ends exactly when that step is positive.  As a safety   *)
(* property: the startIndex of successive fetches strictly increases.      *)
(***************************************************************************)
C7_PagerTerminates ==
    \A j, k \in 1..Len(Fetches) :
        j < k => Fetches[j].startIndex < Fetches[k].startIndex

(***************************************************************************)
(* C8: the fetches are at startIndex 1, 1+P, 1+2P, ... with P the          *)
(* itemsPerPage read from the first page; every fetch after the first has  *)
(* startIndex <= totalResults; the pager returns as soon as the next       *)
(* startIndex exceeds totalResults; totalResults <= P (so totalResults =   *)
(* 0) means a single fetch; the pages are appended in fetch order.         *)
(***************************************************************************)
C8_FetchSchedule ==
    /\ Fetches # << >> => Fetches[1].startIndex = 1
    /\ first_page # Null =>
         /\ \A k \in 2..Len(Fetches) :
                /\ Fetches[k].startIndex = Fetches[k - 1].startIndex + items_per_page
                /\ Fetches[k].startIndex = 1 + (k - 1) * items_per_page
                /\ Fetches[k].startIndex <= total_results
         /\ total_results <= items_per_page => Len(Fetches) = 1
         /\ all_resources = PagesOf(backend, Fetches)
         /\ Listed =>
              /\ 1 + Len(Fetches) * items_per_page > total_results
              /\ resources.Resources = PagesOf(backend, Fetches)
              /\ (backend.reports /\ total_results = 0) =>
                     (Len(Fetches) = 1 /\ resources.Resources = << >>)

C8_Witness ==
    /\ Listed
    /\ total_results = 3 /\ items_per_page = 1
    /\ StartIndexes = <<1, 2, 3>>
    /\ resources.Resources = <<[id |-> "r1"], [id |-> "r2"], [id |-> "r3"]>>

(***************************************************************************)
(* C9 as stated: the delay is taken before each deletion except the last;  *)
(* exactly max(N-1, 0) pauses occur, none follows the last deletion, no    *)
(* two DELETEs are issued without a pause between them, and an empty       *)
(* input gives an empty mapping, no network call and no pause.             *)
(***************************************************************************)
DeletesAndSleeps == SelectSeq(events, LAMBDA e : IsDelete(e) \/ IsSleep(e))

C9_DelayBeforeEachButLast ==
    BulkDone =>
        LET b == DeletesAndSleeps
            n == Len(resource_ids)
            \* the positions of the DELETEs in b
            at == { k \in 1..Len(b) : IsDelete(b[k]) }
        IN  /\ Len(Sleeps) = Max(n - 1, 0)
            /\ \A k \in at :
                   (\E l \in at : l > k) => (k > 1 /\ IsSleep(b[k - 1]))
            /\ (b # << >> => IsDelete(b[Len(b)]))
            /\ \A k \in 1..(Len(b) - 1) : ~(IsDelete(b[k]) /\ IsDelete(b[k + 1]))
            /\ (n = 0 => results = << >> /\ b = << >>)

(***************************************************************************)
(* C9 amended: the delay is taken after each deletion except the last,     *)
(* that is between consecutive deletions and never before the first:       *)
(* DELETEs and pauses alternate, starting with a DELETE; exactly           *)
(* max(N-1, 0) pauses occur, none follows the last deletion, and an empty  *)
(* input gives an empty mapping, no network call and no pause.             *)
(***************************************************************************)
C9_DelayBetweenDeletions ==
    BulkRun =>
        LET b == DeletesAndSleeps
            n == Len(resource_ids)
        IN  /\ \A k \in 1..Len(b) : IsDelete(b[k]) <=> (k % 2 = 1)
            /\ Len(Deletes) = i
            /\ Len(Sleeps) = IF i < n THEN i ELSE Max(n - 1, 0)
            /\ BulkDone =>
                 /\ Len(Sleeps) = Max(n - 1, 0)
                 /\ (b # << >> => IsDelete(b[Len(b)]))
                 /\ (n = 0 => results = << >> /\ b = << >>)

C9_Witness ==
    /\ entry = "delete_resources" /\ pc = "returned"
    /\ Len(resource_ids) = 3
    /\ [k \in 1..Len(events) |-> events[k].op]
           = <<"DELETE", "SLEEP", "DELETE", "SLEEP", "DELETE">>

(***************************************************************************)
(* C10: the failure of a PATCH or DELETE never changes the exit code: an   *)
(* add-to-group run, a single-id delete and a confirmed delete-all whose   *)
(* listing succeeded exit with 0 whatever the requests' outcomes; the      *)
(* summary's successes and failures add up to the number of outcome        *)
(* entries; exit code 1 comes only from a usage error, a failed listing    *)
(* or a failed create request.                                             *)
(***************************************************************************)
LastEvent == events[Len(events)]

C10_ExitCodes ==
    pc = "exited" =>
        /\ (\E k \in 1..Len(events) : events[k].op \in {"PATCH", "DELETE"})
               => exit_code = 0
        /\ (entry = "main" /\ Listed /\ args.action = "delete") =>
               /\ exit_code = 0
               /\ LET summary == stdout[Len(stdout)] IN
                  /\ summary.line = "Deletion Summary:"
                  /\ summary.successful + summary.failed = Len(results)
                  /\ summary.successful
                       = Cardinality({ j \in 1..Len(results) : results[j].value })
        /\ exit_code \in {0, 1}
        /\ exit_code = 1 =>
               \/ entry = "main" /\ UsageError(args) /\ events = << >>
               \/ /\ events # << >>
                  /\ LastEvent.op \in {"GET", "POST"}
                  /\ ~LastEvent.ok

C10_Witness ==
    /\ pc = "exited" /\ exit_code = 0
    /\ args.add_to_group
    /\ Len(events) = 1
    /\ events[1].op = "PATCH" /\ ~events[1].ok

====
